---------------------------- MODULE Spec2Model ----------------------------
(***************************************************************************)
(* Model of custom_components/automation_helper/__init__.py: the service   *)
(* registry lifecycle, the two service handlers generate_automation and    *)
(* generate_package, the guarded writer _async_write_file with its         *)
(* executor job, and the pure helpers slugify, humanize and                *)
(* AutomationDefinition.to_yaml.                                           *)
(*                                                                         *)
(* Text is a sequence of one-character strings, so that slugify and        *)
(* humanize are computed character by character as the regular             *)
(* expressions of the source do.  A path is a sequence of components, each *)
(* a TLA+ string.  The filesystem is the set of existing directories and   *)
(* a function from the existing files to their content.                    *)
(***************************************************************************)
EXTENDS Naturals, Sequences, FiniteSets, TLC

VARIABLES
    registry,   \* hass.services: service name -> id of the registered handler
    log,        \* the lifecycle calls made so far, in order
    req,        \* the service calls: request id -> its parameters and position
    files,      \* the filesystem: path of each existing file -> its content
    dirs,       \* the filesystem: the paths of the existing directories
    slugIn,     \* slugify: the text under test
    slugOut,    \* slugify: the results of applying slugify once and twice
    defn,       \* to_yaml: the AutomationDefinition under test
    yamlOut     \* to_yaml: the serialized mapping

vars == <<registry, log, req, files, dirs, slugIn, slugOut, defn, yamlOut>>

(***************************************************************************)
(* Bounds of the model.                                                    *)
(***************************************************************************)
MaxLen == 4
MaxLifecycleCalls == 4

(***************************************************************************)
(* Characters.                                                             *)
(***************************************************************************)
UpperChars ==
    <<"A","B","C","D","E","F","G","H","I","J","K","L","M",
      "N","O","P","Q","R","S","T","U","V","W","X","Y","Z">>

LowerChars ==
    <<"a","b","c","d","e","f","g","h","i","j","k","l","m",
      "n","o","p","q","r","s","t","u","v","w","x","y","z">>

Digits == {"0","1","2","3","4","5","6","7","8","9"}

Range(s) == {s[i] : i \in DOMAIN s}

\* str.lower() on one character
Lower(c) ==
    IF \E i \in DOMAIN UpperChars : UpperChars[i] = c
    THEN LowerChars[CHOOSE i \in DOMAIN UpperChars : UpperChars[i] = c]
    ELSE c

\* str.upper() on one character
Upper(c) ==
    IF \E i \in DOMAIN LowerChars : LowerChars[i] = c
    THEN UpperChars[CHOOSE i \in DOMAIN LowerChars : LowerChars[i] = c]
    ELSE c

IsLetter(c) == c \in Range(UpperChars) \cup Range(LowerChars)

\* what str.strip() removes and the regular expression class \s matches
IsSpace(c) == c \in {" ", "\t", "\n", "\r", "\f"}

LowerText(s) == [i \in DOMAIN s |-> Lower(s[i])]

RECURSIVE LStrip(_)
LStrip(s) == IF s # <<>> /\ IsSpace(Head(s)) THEN LStrip(Tail(s)) ELSE s

RECURSIVE RStrip(_)
RStrip(s) ==
    IF s # <<>> /\ IsSpace(s[Len(s)]) THEN RStrip(SubSeq(s, 1, Len(s) - 1)) ELSE s

\* str.strip()
Strip(s) == RStrip(LStrip(s))

\* the characters re.sub(r"[^a-z0-9_\- ]", "", value) keeps
SlugKeeps(c) == c \in Range(LowerChars) \cup Digits \cup {"_", "-", " "}

\* the characters of a run that re.sub(r"[\s\-]+", "_", value) replaces
SlugSeparator(c) == IsSpace(c) \/ c = "-"

\* re.sub(r"[\s\-]+", "_", s): each run of separators becomes one "_"
RECURSIVE SubSlugRuns(_, _)
SubSlugRuns(s, inRun) ==
    IF s = <<>> THEN <<>>
    ELSE IF SlugSeparator(Head(s))
         THEN (IF inRun THEN <<>> ELSE <<"_">>) \o SubSlugRuns(Tail(s), TRUE)
         ELSE <<Head(s)>> \o SubSlugRuns(Tail(s), FALSE)

Fallback == <<"a","u","t","o","m","a","t","i","o","n">>

slugify_no_collapse(value) ==
    LET v1 == LowerText(Strip(value))
        v2 == SelectSeq(v1, SlugKeeps)
    IN  IF v2 = <<>> THEN Fallback ELSE v2

slugify(value) ==
    LET v1 == LowerText(Strip(value))
        v2 == SelectSeq(v1, SlugKeeps)
        v3 == SubSlugRuns(v2, FALSE)
    IN  IF v3 = <<>> THEN Fallback ELSE v3


\* the characters of a run that re.sub(r"[_\-]+", " ", value) replaces
HumanSeparator(c) == c \in {"_", "-"}

\* re.sub(r"[_\-]+", " ", s): each run of separators becomes one " "
RECURSIVE SubHumanRuns(_, _)
SubHumanRuns(s, inRun) ==
    IF s = <<>> THEN <<>>
    ELSE IF HumanSeparator(Head(s))
         THEN (IF inRun THEN <<>> ELSE <<" ">>) \o SubHumanRuns(Tail(s), TRUE)
         ELSE <<Head(s)>> \o SubHumanRuns(Tail(s), FALSE)

\* str.title(): a letter is upper-cased after a non-letter and lower-cased
\* after a letter
Title(s) ==
    [i \in DOMAIN s |->
        IF i > 1 /\ IsLetter(s[i - 1]) THEN Lower(s[i]) ELSE Upper(s[i])]

humanize(value) ==
    LET cleaned == Strip(SubHumanRuns(value, FALSE))
    IN  IF cleaned # <<>> THEN Title(cleaned)
        ELSE <<"A","u","t","o","m","a","t","i","o","n">>

\* the Python str of a text, as one TLA+ string
RECURSIVE Join(_)
Join(s) == IF s = <<>> THEN "" ELSE Head(s) \o Join(Tail(s))

(***************************************************************************)
(* Optional values: Python's None and a present value.                     *)
(***************************************************************************)
Nothing == [isNone |-> TRUE]
Some(v) == [isNone |-> FALSE, val |-> v]

\* Python truthiness of an optional str: neither None nor ""
TruthyStr(o) == ~o.isNone /\ o.val # ""

\* Python truthiness of an optional list: neither None nor []
TruthyList(o) == ~o.isNone /\ o.val # <<>>

(***************************************************************************)
(* AutomationDefinition.to_yaml.  The mapping handed to yaml.safe_dump     *)
(* with sort_keys=False is the sequence of its items in insertion order.   *)
(***************************************************************************)
Item(k, v) == [key |-> k, value |-> v]

\* a step object: an opaque mapping
Step == [service |-> "logbook.log"]

OptionalLists == {Nothing, Some(<<>>), Some(<<Step>>)}

to_yaml_with_nulls(d) ==
    <<Item("alias", Some(d.alias)),
      Item("mode", Some(d.mode)),
      Item("trigger", Some(IF TruthyList(d.trigger) THEN d.trigger.val ELSE <<>>)),
      Item("action", Some(IF TruthyList(d.action) THEN d.action.val ELSE <<>>)),
      Item("description", d.description),
      Item("condition", d.condition)>>

to_yaml(d) ==
    <<Item("alias", Some(d.alias)),
      Item("mode", Some(d.mode)),
      Item("trigger", Some(IF TruthyList(d.trigger) THEN d.trigger.val ELSE <<>>)),
      Item("action", Some(IF TruthyList(d.action) THEN d.action.val ELSE <<>>))>>
    \o (IF TruthyStr(d.description)
        THEN <<Item("description", d.description)>> ELSE <<>>)
    \o (IF TruthyList(d.condition)
        THEN <<Item("condition", d.condition)>> ELSE <<>>)

(***************************************************************************)
(* The filesystem below hass.config.path(""), which always exists.         *)
(***************************************************************************)
Parent(p) == SubSeq(p, 1, Len(p) - 1)

\* Path.exists()
Exists(p) == p \in dirs \/ p \in DOMAIN files

\* any(d.iterdir()): some file or directory lies directly in d
NonEmpty(d) == \E p \in dirs \cup DOMAIN files : Len(p) = Len(d) + 1 /\ Parent(p) = d

\* Path.mkdir(parents=True, exist_ok=True)
MkdirP(ds, p) == ds \cup {SubSeq(p, 1, n) : n \in 1..Len(p)}

\* Path.write_text(content) on the file function fs
WriteText(fs, p, content) ==
    [q \in DOMAIN fs \cup {p} |-> IF q = p THEN content ELSE fs[q]]

\* what a write_text that fails after opening the file leaves behind
Truncated == [builder |-> "<truncated>"]

NoFiles == [p \in {} |-> Truncated]

(***************************************************************************)
(* hass.services and the lifecycle of the integration.                     *)
(***************************************************************************)
SERVICE_GENERATE_AUTOMATION == "generate_automation"
SERVICE_GENERATE_PACKAGE == "generate_package"
Services == {SERVICE_GENERATE_AUTOMATION, SERVICE_GENERATE_PACKAGE}

NoServices == [n \in {} |-> 0]

has_service(reg, n) == n \in DOMAIN reg

\* hass.services.async_register(DOMAIN, n, handler): sets or replaces
async_register(reg, n, handler) ==
    [m \in DOMAIN reg \cup {n} |-> IF m = n THEN handler ELSE reg[m]]

\* hass.services.async_remove(DOMAIN, n)
async_remove(reg, n) == [m \in DOMAIN reg \ {n} |-> reg[m]]

\* without the has_service guard of line 117
RegisterAlways(reg, handler) ==
    async_register(async_register(reg, SERVICE_GENERATE_AUTOMATION, handler),
                   SERVICE_GENERATE_PACKAGE, handler)

\* _async_register_service; the two closures it creates are identified by
\* `handler`, the number of the lifecycle call that created them
RegisterService(reg, handler) ==
    IF has_service(reg, SERVICE_GENERATE_AUTOMATION) THEN reg
    ELSE async_register(async_register(reg, SERVICE_GENERATE_AUTOMATION, handler),
                        SERVICE_GENERATE_PACKAGE, handler)

\* the body of async_unload_entry
UnloadServices(reg) ==
    LET r1 == IF has_service(reg, SERVICE_GENERATE_AUTOMATION)
              THEN async_remove(reg, SERVICE_GENERATE_AUTOMATION) ELSE reg
    IN  IF has_service(r1, SERVICE_GENERATE_PACKAGE)
        THEN async_remove(r1, SERVICE_GENERATE_PACKAGE) ELSE r1

NoError == [isNone |-> TRUE]
Error(type, text, path) == [isNone |-> FALSE, type |-> type, text |-> text, path |-> path]

\* a service call not made yet
Idle ==
    [pc |-> "idle", service |-> "", data |-> Nothing, overwrite |-> FALSE,
     queue |-> <<>>, wrote |-> <<>>, error |-> NoError]
Requests == {"r1", "r2"}

LifecycleUnchanged == UNCHANGED <<req, files, dirs, slugIn, slugOut, defn, yamlOut>>

async_setup ==
    /\ Len(log) < MaxLifecycleCalls
    /\ registry' = RegisterService(registry, Len(log) + 1)
    /\ log' = Append(log, "async_setup")
    /\ LifecycleUnchanged

async_setup_entry ==
    /\ Len(log) < MaxLifecycleCalls
    /\ registry' = RegisterService(registry, Len(log) + 1)
    /\ log' = Append(log, "async_setup_entry")
    /\ LifecycleUnchanged

async_unload_entry ==
    /\ Len(log) < MaxLifecycleCalls
    /\ registry' = UnloadServices(registry)
    /\ log' = Append(log, "async_unload_entry")
    /\ LifecycleUnchanged

\* the state after the module is loaded: nothing registered, no call made
Init ==
    /\ registry = NoServices
    /\ log = <<>>
    /\ req = [r \in Requests |-> Idle]
    /\ files = NoFiles
    /\ dirs = {}
    /\ slugIn = <<>>
    /\ slugOut = <<>>
    /\ defn = Nothing
    /\ yamlOut = <<>>

NextLifecycle == async_setup \/ async_setup_entry \/ async_unload_entry

SpecLifecycle == Init /\ [][NextLifecycle]_vars

(***************************************************************************)
(* Schema validation, which hass.services runs before it calls a handler.  *)
(* A missing key is Nothing; vol.Optional(key, default=d) fills it in.     *)
(***************************************************************************)
Default(o, d) == IF o.isNone THEN Some(d) ELSE o

Invalid(key) == Error("vol.Invalid", "required key not provided", <<key>>)

\* a schema that also demands non-empty trigger and action lists
SchemaNonEmptyLists(data) ==
    IF data.alias.isNone THEN [ok |-> FALSE, error |-> Invalid("alias")]
    ELSE IF ~TruthyList(data.trigger) THEN [ok |-> FALSE, error |-> Invalid("trigger")]
    ELSE IF ~TruthyList(data.action) THEN [ok |-> FALSE, error |-> Invalid("action")]
    ELSE [ok |-> TRUE,
          data |-> [data EXCEPT !.mode = Default(@, "single"),
                                !.overwrite = Default(@, FALSE)]]

\* SERVICE_SCHEMA: alias, trigger and action are vol.Required; the list
\* validator vol.All(cv.ensure_list, [cv.SCRIPT_SCHEMA]) accepts any list of
\* steps, the empty list included
SERVICE_SCHEMA(data) ==
    IF data.alias.isNone THEN [ok |-> FALSE, error |-> Invalid("alias")]
    ELSE IF data.trigger.isNone THEN [ok |-> FALSE, error |-> Invalid("trigger")]
    ELSE IF data.action.isNone THEN [ok |-> FALSE, error |-> Invalid("action")]
    ELSE [ok |-> TRUE,
          data |-> [data EXCEPT !.mode = Default(@, "single"),
                                !.overwrite = Default(@, FALSE)]]

\* PACKAGE_SERVICE_SCHEMA
PACKAGE_SERVICE_SCHEMA(data) ==
    IF data.name.isNone THEN [ok |-> FALSE, error |-> Invalid("name")]
    ELSE IF ~data.blueprint_domain.isNone
            /\ data.blueprint_domain.val \notin {"automation", "script"}
    THEN [ok |-> FALSE,
          error |-> Error("vol.Invalid", "value must be one of", <<"blueprint_domain">>)]
    ELSE [ok |-> TRUE,
          data |-> [data EXCEPT !.overwrite = Default(@, FALSE),
                                !.include_example = Default(@, TRUE),
                                !.include_scripts = Default(@, TRUE),
                                !.include_scenes = Default(@, FALSE),
                                !.include_readme = Default(@, TRUE),
                                !.blueprint_domain = Default(@, "automation"),
                                !.include_blueprint = Default(@, FALSE)]]

(***************************************************************************)
(* The content builders of a package.  A content is the record of what the *)
(* builder puts into the text it returns.                                  *)
(***************************************************************************)
Or(o, d) == IF TruthyStr(o) THEN o.val ELSE d

build_automation_package_yaml(name, description, include_example) ==
    [builder |-> "build_automation_package_yaml",
     header |-> name,
     body |-> IF include_example
              THEN <<[alias |-> name,
                      description |-> Or(description, "Replace the trigger and actions")]>>
              ELSE <<>>]

build_scripts_package_yaml(name, include_example) ==
    [builder |-> "build_scripts_package_yaml",
     header |-> name,
     body |-> IF include_example THEN <<[alias |-> name]>> ELSE <<>>]

build_scenes_package_yaml(name, include_example) ==
    [builder |-> "build_scenes_package_yaml",
     header |-> name,
     body |-> IF include_example THEN <<[name |-> name]>> ELSE <<>>]

build_package_readme(name, description, scripts, scenes, blueprint) ==
    [builder |-> "build_package_readme",
     header |-> name,
     body |-> <<Or(description, "Describe the goal of this automation package."),
                "automations.yaml">>
              \o (IF scripts THEN <<"scripts.yaml">> ELSE <<>>)
              \o (IF scenes THEN <<"scenes.yaml">> ELSE <<>>)
              \o (IF blueprint THEN <<"blueprints/">> ELSE <<>>)]

build_blueprint_yaml(name, description, domain) ==
    [builder |-> "build_blueprint_yaml",
     header |-> name,
     body |-> <<Or(description, "Adapt this blueprint"), domain>>
              \o (IF domain = "automation" THEN <<"trigger", "action">>
                  ELSE <<"sequence">>)]

(***************************************************************************)
(* The service calls.  The host runs each handler as a coroutine on the    *)
(* event loop and each _write job on a thread of its executor pool.  A     *)
(* handler runs without interruption by another coroutine up to its next   *)
(* await, so its code up to there is one action; the directories it makes  *)
(* there are made with exist_ok and never removed, so no job can observe   *)
(* the action half done.  A job runs on its own thread, in parallel with   *)
(* the event loop and with the other jobs: its existence check (line 246)  *)
(* and its write (lines 248-249) are two actions.                          *)
(*                                                                         *)
(* r1 is the call that starts first.  A call is at "check" when its job is *)
(* submitted and has not yet tested path.exists(), at "write" when the     *)
(* test has passed, and is "done" or "failed" in the end; queue holds the  *)
(* writes still to make, the head being the one its job is making, and     *)
(* wrote the paths whose write_text completed.                             *)
(***************************************************************************)
Job(path, content) == [path |-> path, content |-> content]

Started(service, data, overwrite, queue) ==
    [pc |-> "check", service |-> service, data |-> data, overwrite |-> overwrite,
     queue |-> queue, wrote |-> <<>>, error |-> NoError]

Failed(service, data, error) ==
    [pc |-> "failed", service |-> service, data |-> data, overwrite |-> FALSE,
     queue |-> <<>>, wrote |-> <<>>, error |-> error]

MayStart(r) ==
    /\ req[r].pc = "idle"
    /\ r = "r2" => req["r1"].pc # "idle"

RequestUnchanged == UNCHANGED <<registry, log, slugIn, slugOut, defn, yamlOut>>

\* line 138 without the test
NeverRefuseFile(output_file, overwrite) == FALSE

\* line 138
RefuseFile(output_file, overwrite) == Exists(output_file) /\ ~overwrite

\* line 130
OutputFilename(filename, alias) ==
    IF TruthyStr(filename) THEN filename.val ELSE Join(slugify(alias)) \o ".yaml"

\* lines 121-128
Definition(data) ==
    [alias |-> Join(data.alias.val),
     description |-> data.description,
     mode |-> data.mode.val,
     trigger |-> data.trigger,
     condition |-> data.condition,
     action |-> data.action]

\* generate_automation: validation, then handle_generate up to its await
generate_automation(r, call) ==
    LET checked == SERVICE_SCHEMA(call) IN
    /\ MayStart(r)
    /\ has_service(registry, SERVICE_GENERATE_AUTOMATION)
    /\ IF ~checked.ok
       THEN /\ req' = [req EXCEPT ![r] =
                          Failed(SERVICE_GENERATE_AUTOMATION, call, checked.error)]
            /\ UNCHANGED <<files, dirs>>
       ELSE LET data == checked.data
                overwrite == data.overwrite.val
                output_dir == <<"automation_helper">>
                output_file == output_dir \o <<OutputFilename(data.filename, data.alias.val)>>
            IN  /\ dirs' = MkdirP(dirs, output_dir)
                /\ UNCHANGED files
                /\ req' = [req EXCEPT ![r] =
                      IF RefuseFile(output_file, overwrite)
                      THEN Failed(SERVICE_GENERATE_AUTOMATION, data,
                                  Error("HomeAssistantError",
                                        "Automation Helper refused to overwrite existing file: ",
                                        output_file))
                      ELSE Started(SERVICE_GENERATE_AUTOMATION, data, overwrite,
                                   <<Job(output_file, to_yaml(Definition(data)))>>)]
    /\ RequestUnchanged

\* line 168 without the strip of line 158
NameEmptyUnstripped(name) == name = <<>>

\* lines 158 and 168
NameEmpty(name) == Strip(name) = <<>>

\* line 179 without the test for entries
RefuseExistingPackage(package_dir, overwrite) == Exists(package_dir) /\ ~overwrite

\* line 179
RefusePackage(package_dir, overwrite) ==
    Exists(package_dir) /\ ~overwrite /\ NonEmpty(package_dir)

\* lines 186-201 with scenes.yaml keyed on include_scripts
PackageFilesScenesWithScripts(package_dir, title, d) ==
    <<Job(package_dir \o <<"automations.yaml">>,
          build_automation_package_yaml(title, d.description, d.include_example.val))>>
    \o (IF d.include_scripts.val
        THEN <<Job(package_dir \o <<"scripts.yaml">>,
                   build_scripts_package_yaml(title, d.include_example.val))>>
        ELSE <<>>)
    \o (IF d.include_scripts.val
        THEN <<Job(package_dir \o <<"scenes.yaml">>,
                   build_scenes_package_yaml(title, d.include_example.val))>>
        ELSE <<>>)
    \o (IF d.include_readme.val
        THEN <<Job(package_dir \o <<"README.md">>,
                   build_package_readme(title, d.description, d.include_scripts.val,
                                        d.include_scenes.val, d.include_blueprint.val))>>
        ELSE <<>>)

\* lines 186-201: the dict `files`, whose items are in insertion order, each
\* with the content its builder returns
PackageFiles(package_dir, title, d) ==
    <<Job(package_dir \o <<"automations.yaml">>,
          build_automation_package_yaml(title, d.description, d.include_example.val))>>
    \o (IF d.include_scripts.val
        THEN <<Job(package_dir \o <<"scripts.yaml">>,
                   build_scripts_package_yaml(title, d.include_example.val))>>
        ELSE <<>>)
    \o (IF d.include_scenes.val
        THEN <<Job(package_dir \o <<"scenes.yaml">>,
                   build_scenes_package_yaml(title, d.include_example.val))>>
        ELSE <<>>)
    \o (IF d.include_readme.val
        THEN <<Job(package_dir \o <<"README.md">>,
                   build_package_readme(title, d.description, d.include_scripts.val,
                                        d.include_scenes.val, d.include_blueprint.val))>>
        ELSE <<>>)

\* lines 203-209: the blueprint, if asked for
PackageBlueprint(package_dir, slug, title, d) ==
    IF d.include_blueprint.val
    THEN <<Job(package_dir \o <<"blueprints", d.blueprint_domain.val, slug \o ".yaml">>,
               build_blueprint_yaml(title, d.description, d.blueprint_domain.val))>>
    ELSE <<>>

\* the blueprint written after the files of the mapping
PackageWritesBlueprintLast(package_dir, slug, title, d) ==
    PackageFiles(package_dir, title, d) \o PackageBlueprint(package_dir, slug, title, d)

\* lines 203-214: the writes of a package in the order the handler awaits
\* them: the blueprint, then the items of `files`
PackageWrites(package_dir, slug, title, d) ==
    PackageBlueprint(package_dir, slug, title, d) \o PackageFiles(package_dir, title, d)

\* generate_package: validation, then handle_generate_package up to its
\* first await
generate_package(r, call) ==
    LET checked == PACKAGE_SERVICE_SCHEMA(call) IN
    /\ MayStart(r)
    /\ has_service(registry, SERVICE_GENERATE_PACKAGE)
    /\ IF ~checked.ok
       THEN /\ req' = [req EXCEPT ![r] =
                          Failed(SERVICE_GENERATE_PACKAGE, call, checked.error)]
            /\ UNCHANGED <<files, dirs>>
       ELSE LET data == checked.data
                package_name == Strip(data.name.val)
                overwrite == data.overwrite.val
                slug == Join(slugify(package_name))
                human_title == Join(humanize(package_name))
                packages_root == <<"packages">>
                package_dir == packages_root \o <<slug>>
                blueprint_dir == package_dir \o <<"blueprints", data.blueprint_domain.val>>
            IN  IF NameEmpty(data.name.val)
                THEN /\ req' = [req EXCEPT ![r] =
                                   Failed(SERVICE_GENERATE_PACKAGE, data,
                                          Error("HomeAssistantError",
                                                "Package name cannot be empty", <<>>))]
                     /\ UNCHANGED <<files, dirs>>
                ELSE IF RefusePackage(package_dir, overwrite)
                THEN /\ req' = [req EXCEPT ![r] =
                                   Failed(SERVICE_GENERATE_PACKAGE, data,
                                          Error("HomeAssistantError",
                                                "Automation Helper refused to overwrite non-empty package directory: ",
                                                package_dir))]
                     /\ dirs' = MkdirP(dirs, packages_root)
                     /\ UNCHANGED files
                ELSE /\ req' = [req EXCEPT ![r] =
                                   Started(SERVICE_GENERATE_PACKAGE, data, overwrite,
                                           PackageWrites(package_dir, slug, human_title, data))]
                     /\ dirs' = IF data.include_blueprint.val
                                THEN MkdirP(dirs, blueprint_dir)
                                ELSE MkdirP(dirs, package_dir)
                     /\ UNCHANGED files
    /\ RequestUnchanged

\* _write, line 246, on the executor thread; FileExistsError is turned into
\* HomeAssistantError at lines 253-254 and ends the handler
JobCheck(r) ==
    /\ req[r].pc = "check"
    /\ LET path == Head(req[r].queue).path IN
       req' = [req EXCEPT ![r] =
                 IF Exists(path) /\ ~req[r].overwrite
                 THEN [@ EXCEPT !.pc = "failed",
                                !.error = Error("HomeAssistantError",
                                                "Automation Helper refused to overwrite ",
                                                path)]
                 ELSE [@ EXCEPT !.pc = "write"]]
    /\ UNCHANGED <<files, dirs>>
    /\ RequestUnchanged

\* _write, lines 248-249, on the executor thread, and the handler's code up
\* to its next await.  write_text completes, or fails with an OSError that
\* ends the handler: before the file is opened ("denied") or after it is
\* opened and truncated ("short")
JobWrite(r, outcome) ==
    /\ req[r].pc = "write"
    /\ LET job == Head(req[r].queue) IN
       /\ dirs' = MkdirP(dirs, Parent(job.path))
       /\ files' = CASE outcome = "ok" -> WriteText(files, job.path, job.content)
                     [] outcome = "denied" -> files
                     [] outcome = "short" -> WriteText(files, job.path, Truncated)
       /\ req' = [req EXCEPT ![r] =
                    IF outcome = "ok"
                    THEN [@ EXCEPT !.queue = Tail(@),
                                   !.wrote = Append(@, job.path),
                                   !.pc = IF Tail(req[r].queue) = <<>> THEN "done"
                                          ELSE "check"]
                    ELSE [@ EXCEPT !.pc = "failed",
                                   !.error = Error("OSError", outcome, job.path)]]
    /\ RequestUnchanged

WriteOutcomes == {"ok", "denied", "short"}

(***************************************************************************)
(* The calls made.  A call's data gives each key of the schema as Nothing  *)
(* (the key is missing) or Some(value).                                    *)
(***************************************************************************)
NightMode == <<"N","i","g","h","t"," ","M","o","d","e">>
Punctuation == <<"!","!","!">>
MorningRoutine == <<"M","o","r","n","i","n","g"," ","R","o","u","t","i","n","e">>
Padded == <<" ","m","o","r","n","i","n","g","-","R","O","U","T","I","N","E","\t">>
Blank == <<" "," "," ">>

AutomationCalls ==
    [alias : {Some(NightMode), Some(Punctuation)},
     description : {Nothing},
     mode : {Nothing},
     filename : {Nothing, Some(""), Some("night_mode.yaml")},
     overwrite : {Nothing, Some(TRUE)},
     trigger : OptionalLists,
     condition : {Nothing},
     action : OptionalLists]
    \cup
    [alias : {Nothing},
     description : {Nothing},
     mode : {Nothing},
     filename : {Nothing},
     overwrite : {Nothing},
     trigger : {Some(<<Step>>)},
     condition : {Nothing},
     action : {Some(<<Step>>)}]

\* every explicit choice of the flags, and the calls that leave them out,
\* among them a call without a name and calls with an unknown blueprint domain
PackageCalls ==
    [name : {Some(MorningRoutine)},
     description : {Nothing, Some("d")},
     overwrite : {Some(TRUE), Some(FALSE)},
     include_example : {Some(TRUE), Some(FALSE)},
     include_scripts : {Some(TRUE), Some(FALSE)},
     include_scenes : {Some(TRUE), Some(FALSE)},
     include_readme : {Some(TRUE), Some(FALSE)},
     blueprint_domain : {Some("automation"), Some("script")},
     include_blueprint : {Some(TRUE), Some(FALSE)}]
    \cup
    [name : {Some(MorningRoutine), Some(Padded), Some(Blank), Some(<<>>), Nothing},
     description : {Nothing},
     overwrite : {Nothing},
     include_example : {Nothing},
     include_scripts : {Nothing},
     include_scenes : {Nothing},
     include_readme : {Nothing},
     blueprint_domain : {Nothing, Some("scene")},
     include_blueprint : {Nothing}]

\* the state after async_setup, with nothing below the configuration
\* directory: both services registered, no call made
InitServing ==
    /\ registry = RegisterService(NoServices, 1)
    /\ log = <<"async_setup">>
    /\ req = [r \in Requests |-> Idle]
    /\ files = NoFiles
    /\ dirs = {}
    /\ slugIn = <<>>
    /\ slugOut = <<>>
    /\ defn = Nothing
    /\ yamlOut = <<>>

\* two calls of generate_automation, in sequence or concurrent
NextAutomation ==
    \/ \E r \in Requests, call \in AutomationCalls : generate_automation(r, call)
    \/ \E r \in Requests : JobCheck(r)
    \/ \E r \in Requests, outcome \in WriteOutcomes : JobWrite(r, outcome)

SpecAutomation == InitServing /\ [][NextAutomation]_vars

(***************************************************************************)
(* One call of generate_package, made when the package directory is        *)
(* absent, is empty, holds an empty subdirectory, or holds the files of an *)
(* earlier package.                                                        *)
(***************************************************************************)
PackageDir == <<"packages", "morning_routine">>

Earlier == [builder |-> "<earlier>"]

InitialTrees ==
    {[dirs |-> {}, files |-> NoFiles],
     [dirs |-> MkdirP({}, PackageDir), files |-> NoFiles],
     [dirs |-> MkdirP({}, PackageDir \o <<"notes">>), files |-> NoFiles],
     [dirs |-> MkdirP({}, PackageDir),
      files |-> WriteText(WriteText(NoFiles, PackageDir \o <<"automations.yaml">>, Earlier),
                          PackageDir \o <<"scenes.yaml">>, Earlier)]}

InitPackage ==
    /\ registry = RegisterService(NoServices, 1)
    /\ log = <<"async_setup">>
    /\ req = [r \in Requests |-> Idle]
    /\ \E tree \in InitialTrees : files = tree.files /\ dirs = tree.dirs
    /\ slugIn = <<>>
    /\ slugOut = <<>>
    /\ defn = Nothing
    /\ yamlOut = <<>>

NextPackage ==
    \/ \E call \in PackageCalls : generate_package("r1", call)
    \/ JobCheck("r1")
    \/ \E outcome \in WriteOutcomes : JobWrite("r1", outcome)

SpecPackage == InitPackage /\ [][NextPackage]_vars

(***************************************************************************)
(* slugify applied to every text of at most MaxLen characters over an      *)
(* alphabet with a lower-case and an upper-case letter, a digit, a space,  *)
(* a tab, a hyphen, an underscore and a punctuation character.             *)
(***************************************************************************)
SlugAlphabet == {"a", "A", "1", " ", "\t", "-", "_", "!"}

Texts == UNION {[1..n -> SlugAlphabet] : n \in 0..MaxLen}

InitSlug ==
    /\ registry = NoServices
    /\ log = <<>>
    /\ req = [r \in Requests |-> Idle]
    /\ files = NoFiles
    /\ dirs = {}
    /\ slugIn \in Texts
    /\ slugOut = <<>>
    /\ defn = Nothing
    /\ yamlOut = <<>>

\* slugify(x)
SlugifyInput ==
    /\ slugOut = <<>>
    /\ slugOut' = <<slugify(slugIn)>>
    /\ UNCHANGED <<registry, log, req, files, dirs, slugIn, defn, yamlOut>>

\* slugify(slugify(x))
SlugifyOutput ==
    /\ Len(slugOut) = 1
    /\ slugOut' = Append(slugOut, slugify(slugOut[1]))
    /\ UNCHANGED <<registry, log, req, files, dirs, slugIn, defn, yamlOut>>

NextSlug == SlugifyInput \/ SlugifyOutput

SpecSlug == InitSlug /\ [][NextSlug]_vars

(***************************************************************************)
(* to_yaml applied to every AutomationDefinition over small field domains. *)
(***************************************************************************)
Definitions ==
    [alias : {"Night Mode"},
     description : {Nothing, Some(""), Some("d")},
     mode : {"single", "restart"},
     trigger : OptionalLists,
     condition : OptionalLists,
     action : OptionalLists]

InitYaml ==
    /\ registry = NoServices
    /\ log = <<>>
    /\ req = [r \in Requests |-> Idle]
    /\ files = NoFiles
    /\ dirs = {}
    /\ slugIn = <<>>
    /\ slugOut = <<>>
    /\ defn \in Definitions
    /\ yamlOut = <<>>

Serialize ==
    /\ yamlOut = <<>>
    /\ yamlOut' = to_yaml(defn)
    /\ UNCHANGED <<registry, log, req, files, dirs, slugIn, slugOut, defn>>

NextYaml == Serialize

SpecYaml == InitYaml /\ [][NextYaml]_vars

(***************************************************************************)
(* Properties of the lifecycle, checked under SpecLifecycle.               *)
(***************************************************************************)
SetupCalls == {"async_setup", "async_setup_entry"}

\* the lifecycle call that opened the current run of setup calls
FirstSetupOfRun ==
    CHOOSE i \in 1..Len(log) :
        /\ \A j \in i..Len(log) : log[j] \in SetupCalls
        /\ i = 1 \/ log[i - 1] = "async_unload_entry"

\* C8: after any sequence of async_setup, async_setup_entry and
\* async_unload_entry calls both services are registered if the last call was
\* a setup and neither is if it was an unload (or no call was made); the
\* registered handlers are those the first setup of the current run of setups
\* created, so a repeated setup registers or replaces nothing; and never is
\* exactly one of the two services registered.
C8_RegistrationFollowsLifecycle ==
    /\ Cardinality(DOMAIN registry) # 1
    /\ (log = <<>> \/ log[Len(log)] = "async_unload_entry")
          => DOMAIN registry = {}
    /\ (log # <<>> /\ log[Len(log)] \in SetupCalls)
          => /\ DOMAIN registry = Services
             /\ \A n \in Services : registry[n] = FirstSetupOfRun

\* C8 witness: a setup repeated after an unload and a setup; the handlers are
\* still those of the earlier setup
C8_Witness ==
    /\ Len(log) >= 3
    /\ log[Len(log)] \in SetupCalls
    /\ log[Len(log) - 1] \in SetupCalls
    /\ log[Len(log) - 2] = "async_unload_entry"
    /\ DOMAIN registry = Services
    /\ registry[SERVICE_GENERATE_PACKAGE] = Len(log) - 1

(***************************************************************************)
(* Properties of slugify, checked under SpecSlug.                          *)
(***************************************************************************)
SlugOutputAlphabet == Range(LowerChars) \cup Digits \cup {"_", "-"}

\* a character slugify does not drop: a letter, a digit, an underscore, a
\* hyphen or a space
SlugValidChar(c) == IsLetter(c) \/ c \in Digits \cup {"_", "-", " "}

\* C10: for every text x, slugify(x) is non-empty and has only characters of
\* [a-z0-9_-]; slugify(slugify(x)) = slugify(x); and an empty x, or an x none
\* of whose characters is valid, yields the fallback identifier "automation".
C10_SlugifyIdempotentClosed ==
    /\ Len(slugOut) >= 1 =>
          /\ slugOut[1] # <<>>
          /\ Range(slugOut[1]) \subseteq SlugOutputAlphabet
          /\ (\A i \in DOMAIN slugIn : ~SlugValidChar(slugIn[i]))
                => Join(slugOut[1]) = "automation"
    /\ Len(slugOut) = 2 => slugOut[2] = slugOut[1]

\* C10 witness: a text with an upper-case letter, a separator run and a
\* dropped character has been slugified twice
C10_Witness ==
    /\ Len(slugOut) = 2
    /\ "A" \in Range(slugIn)
    /\ "!" \in Range(slugIn)
    /\ \E i \in 1..(Len(slugIn) - 1) : slugIn[i] = " " /\ slugIn[i + 1] = "-"
    /\ "_" \in Range(slugOut[1])
    /\ Len(slugOut[1]) < Len(slugIn)

(***************************************************************************)
(* Properties of to_yaml, checked under SpecYaml.                          *)
(***************************************************************************)
HasKey(m, k) == \E i \in DOMAIN m : m[i].key = k

ValueOf(m, k) == m[CHOOSE i \in DOMAIN m : m[i].key = k].value

Serialized == yamlOut # <<>>

AlwaysPresentKeys ==
    /\ \A k \in {"alias", "mode", "trigger", "action"} : HasKey(yamlOut, k)
    /\ \A i \in DOMAIN yamlOut : ~yamlOut[i].value.isNone
    /\ \A k \in {"trigger", "action"} :
          ValueOf(yamlOut, k).val \in {<<>>, <<Step>>}

\* C9 as stated: the mapping has alias, mode, trigger and action (lists, never
\* null), description iff a description was supplied and condition iff a
\* condition list was supplied, and no null placeholder.
C9_KeysIffSupplied ==
    Serialized =>
        /\ AlwaysPresentKeys
        /\ HasKey(yamlOut, "description") <=> ~defn.description.isNone
        /\ HasKey(yamlOut, "condition") <=> ~defn.condition.isNone

\* C9 amended: the mapping has alias, mode, trigger and action (lists, never
\* null), description iff a non-empty description was supplied and condition
\* iff a non-empty condition list was supplied, and no null placeholder.
C9_KeysIffNonEmpty ==
    Serialized =>
        /\ AlwaysPresentKeys
        /\ HasKey(yamlOut, "description")
              <=> (~defn.description.isNone /\ defn.description.val # "")
        /\ HasKey(yamlOut, "condition")
              <=> (~defn.condition.isNone /\ defn.condition.val # <<>>)

\* C9 witness: a definition with an empty description, no condition and no
\* trigger list has been serialized
C9_Witness ==
    /\ Serialized
    /\ defn.description = Some("")
    /\ defn.condition.isNone
    /\ defn.trigger.isNone
    /\ ~HasKey(yamlOut, "description")
    /\ ValueOf(yamlOut, "trigger") = Some(<<>>)

(***************************************************************************)
(* Properties of generate_automation, checked under SpecAutomation.        *)
(***************************************************************************)
Finished(r) == req[r].pc \in {"done", "failed"}

\* the step in which call r is made
Starts(r) == req[r].pc = "idle" /\ req'[r].pc # "idle"

RejectedByValidation(q) == ~q.error.isNone /\ q.error.type = "vol.Invalid"

\* the output file a validated generate_automation call resolves to
OutputFile(q) ==
    <<"automation_helper", OutputFilename(q.data.filename, q.data.alias.val)>>

\* C1: a generate_automation call with overwrite=false made when its output
\* file exists (an earlier call wrote it) fails at once with an error that
\* names exactly that path, and leaves the file's content as it was; a call
\* that has ended writes nothing more.
C1_SecondCallRefused ==
    [][\A r \in Requests :
          /\ (/\ Starts(r)
              /\ ~RejectedByValidation(req'[r])
              /\ ~req'[r].data.overwrite.val
              /\ OutputFile(req'[r]) \in DOMAIN files)
                => /\ req'[r].pc = "failed"
                   /\ req'[r].error.type = "HomeAssistantError"
                   /\ req'[r].error.path = OutputFile(req'[r])
                   /\ files' = files
          /\ Finished(r) => req'[r] = req[r]]_vars

\* C1 witness: r1 wrote the file, r2 resolved to the same file from other
\* data, was refused with that path, and the file still has r1's content
C1_Witness ==
    /\ req["r1"].pc = "done"
    /\ req["r2"].pc = "failed"
    /\ req["r2"].error.type = "HomeAssistantError"
    /\ req["r2"].error.text = "Automation Helper refused to overwrite existing file: "
    /\ req["r2"].error.path = OutputFile(req["r1"])
    /\ req["r2"].data.filename # req["r1"].data.filename
    /\ to_yaml(Definition(req["r2"].data)) # to_yaml(Definition(req["r1"].data))
    /\ files[OutputFile(req["r1"])] = to_yaml(Definition(req["r1"].data))

\* C2 as stated: of two calls with overwrite=false that resolve to the same
\* file at most one writes it, so a file that exists is never overwritten by
\* a writer with overwrite=false.
C2_AtMostOneWriter ==
    \A r, s \in Requests :
        (/\ r # s
         /\ req[r].pc # "idle" /\ ~RejectedByValidation(req[r])
         /\ req[s].pc # "idle" /\ ~RejectedByValidation(req[s])
         /\ ~req[r].data.overwrite.val
         /\ ~req[s].data.overwrite.val
         /\ OutputFile(req[r]) = OutputFile(req[s]))
            => ~(req[r].wrote # <<>> /\ req[s].wrote # <<>>)

\* C6 as stated: a call whose trigger list or action list is empty is
\* rejected by validation.
C6_EmptyListRejected ==
    \A r \in Requests :
        (/\ req[r].pc # "idle"
         /\ \/ req[r].data.trigger = Some(<<>>)
            \/ req[r].data.action = Some(<<>>))
            => RejectedByValidation(req[r])

\* C6 amended: a call that leaves out trigger or action is rejected by
\* validation before any filesystem action, no directory or file being
\* created or changed by it; a call that gives both (and an alias), be they
\* empty lists, is not rejected by validation.
C6_MissingListRejected ==
    [][\A r \in Requests :
          Starts(r) =>
              /\ (req'[r].data.trigger.isNone \/ req'[r].data.action.isNone)
                    => /\ req'[r].pc = "failed"
                       /\ RejectedByValidation(req'[r])
                       /\ req'[r].wrote = <<>>
                       /\ files' = files
                       /\ dirs' = dirs
              /\ (/\ ~req'[r].data.alias.isNone
                  /\ ~req'[r].data.trigger.isNone
                  /\ ~req'[r].data.action.isNone)
                    => ~RejectedByValidation(req'[r])]_vars

\* C6 witness: a call without trigger was rejected with nothing on disk, and
\* then a call with an empty trigger list and an empty action list wrote its
\* file
C6_Witness ==
    /\ req["r1"].pc = "failed"
    /\ req["r1"].data.trigger.isNone
    /\ req["r1"].error = Invalid("trigger")
    /\ req["r2"].pc = "done"
    /\ req["r2"].data.trigger = Some(<<>>)
    /\ req["r2"].data.action = Some(<<>>)
    /\ DOMAIN files = {OutputFile(req["r2"])}
    /\ ValueOf(files[OutputFile(req["r2"])], "trigger") = Some(<<>>)

(***************************************************************************)
(* Properties of generate_package, checked under SpecPackage, where every  *)
(* name that is not blank is "Morning Routine" or " morning-ROUTINE<tab>"  *)
(* and resolves to PackageDir.                                             *)
(***************************************************************************)
Call == req["r1"]

\* a validated call whose name slugifies to morning_routine
NamedMorningRoutine(q) ==
    /\ ~RejectedByValidation(q)
    /\ q.data.name \in {Some(MorningRoutine), Some(Padded)}

\* the files and directories below the package directory
Below(d) == {p \in dirs \cup DOMAIN files : Len(p) > Len(d) /\ SubSeq(p, 1, Len(d)) = d}

RefusedDirectory(q) ==
    /\ q.pc = "failed"
    /\ q.error.type = "HomeAssistantError"
    /\ q.error.text
          = "Automation Helper refused to overwrite non-empty package directory: "

\* C3: a generate_package call made with overwrite=false when its package
\* directory exists and holds an entry fails with an error that names
\* exactly that directory and creates, changes and removes nothing; a call
\* made when the directory is absent or empty, or with overwrite=true, is
\* not refused for that reason.
C3_NonEmptyPackageRefused ==
    [][(Starts("r1") /\ NamedMorningRoutine(req'["r1"])) =>
          IF Below(PackageDir) # {} /\ ~req'["r1"].data.overwrite.val
          THEN /\ RefusedDirectory(req'["r1"])
               /\ req'["r1"].error.path = PackageDir
               /\ req'["r1"].wrote = <<>>
               /\ files' = files
               /\ dirs' = dirs
          ELSE ~RefusedDirectory(req'["r1"])]_vars

\* C3 witness: the call was refused with the directory's path while the
\* directory held the files of an earlier package
C3_Witness ==
    /\ RefusedDirectory(Call)
    /\ Call.error.path = <<"packages", "morning_routine">>
    /\ DOMAIN files = {PackageDir \o <<"automations.yaml">>, PackageDir \o <<"scenes.yaml">>}
    /\ \A p \in DOMAIN files : files[p] = Earlier

\* C4: a generate_package call whose name is empty after trimming fails with
\* the error "Package name cannot be empty" before any filesystem action: no
\* directory and no file is created by it.
C4_BlankNameRejected ==
    [][(/\ Starts("r1")
        /\ ~RejectedByValidation(req'["r1"])
        /\ \A i \in DOMAIN req'["r1"].data.name.val :
              IsSpace(req'["r1"].data.name.val[i]))
          => /\ req'["r1"].pc = "failed"
             /\ req'["r1"].error
                   = Error("HomeAssistantError", "Package name cannot be empty", <<>>)
             /\ req'["r1"].wrote = <<>>
             /\ files' = files
             /\ dirs' = dirs]_vars

\* C4 witness: the call named "   " has failed and nothing is on disk
C4_Witness ==
    /\ Call.pc = "failed"
    /\ Call.data.name = Some(Blank)
    /\ Call.error.text = "Package name cannot be empty"
    /\ dirs = {}
    /\ files = NoFiles

\* the files a package is to hold, by the flags of the call
ExpectedFiles(d) ==
    {PackageDir \o <<"automations.yaml">>}
    \cup (IF d.include_scripts.val THEN {PackageDir \o <<"scripts.yaml">>} ELSE {})
    \cup (IF d.include_scenes.val THEN {PackageDir \o <<"scenes.yaml">>} ELSE {})
    \cup (IF d.include_readme.val THEN {PackageDir \o <<"README.md">>} ELSE {})
    \cup (IF d.include_blueprint.val
          THEN {PackageDir \o <<"blueprints", d.blueprint_domain.val,
                                "morning_routine.yaml">>}
          ELSE {})

\* the subdirectories a package is to hold
ExpectedDirs(d) ==
    IF d.include_blueprint.val
    THEN {PackageDir \o <<"blueprints">>,
          PackageDir \o <<"blueprints", d.blueprint_domain.val>>}
    ELSE {}

DefaultPackageCall ==
    [name |-> Some(MorningRoutine), description |-> Nothing, overwrite |-> Nothing,
     include_example |-> Nothing, include_scripts |-> Nothing,
     include_scenes |-> Nothing, include_readme |-> Nothing,
     blueprint_domain |-> Nothing, include_blueprint |-> Nothing]

\* C5: a generate_package call with a non-empty name, made when its package
\* directory is absent or empty, fails only if a write fails, whatever the
\* flags, and once it is done the package directory holds exactly
\* automations.yaml, scripts.yaml iff include_scripts, scenes.yaml iff
\* include_scenes, README.md iff include_readme, and
\* blueprints/<blueprint_domain>/<slug>.yaml iff include_blueprint; with the
\* flags left out that is automations.yaml, scripts.yaml and README.md.
C5_PackageHoldsExactlyItsFiles ==
    (Below(PackageDir) = {}) =>
        [](/\ (Call.pc = "failed" /\ NamedMorningRoutine(Call))
                 => Call.error.type = "OSError"
           /\ Call.pc = "done" =>
                 /\ Below(PackageDir) \cap DOMAIN files = ExpectedFiles(Call.data)
                 /\ Below(PackageDir) \cap dirs = ExpectedDirs(Call.data)
                 /\ DOMAIN files \cap dirs = {}
                 /\ Call.data = PACKAGE_SERVICE_SCHEMA(DefaultPackageCall).data
                       => Below(PackageDir)
                             = {PackageDir \o <<"automations.yaml">>,
                                PackageDir \o <<"scripts.yaml">>,
                                PackageDir \o <<"README.md">>})

\* C5 witness: a call with a script blueprint, scenes and no README is done
\* in a directory that was empty
C5_Witness ==
    /\ Call.pc = "done"
    /\ ~Call.data.overwrite.val
    /\ Call.data.include_blueprint.val
    /\ Call.data.blueprint_domain.val = "script"
    /\ Call.data.include_scenes.val
    /\ ~Call.data.include_readme.val
    /\ PackageDir \o <<"blueprints", "script", "morning_routine.yaml">> \in DOMAIN files
    /\ PackageDir \o <<"README.md">> \notin DOMAIN files

\* the order in which a package's files are to be written
ExpectedOrder(d) ==
    (IF d.include_blueprint.val
     THEN <<PackageDir \o <<"blueprints", d.blueprint_domain.val, "morning_routine.yaml">>>>
     ELSE <<>>)
    \o <<PackageDir \o <<"automations.yaml">>>>
    \o (IF d.include_scripts.val THEN <<PackageDir \o <<"scripts.yaml">>>> ELSE <<>>)
    \o (IF d.include_scenes.val THEN <<PackageDir \o <<"scenes.yaml">>>> ELSE <<>>)
    \o (IF d.include_readme.val THEN <<PackageDir \o <<"README.md">>>> ELSE <<>>)

\* the content the call builds for path p
BuiltFor(q, p) ==
    LET jobs == PackageWrites(PackageDir, "morning_routine", "Morning Routine", q.data)
    IN  jobs[CHOOSE i \in DOMAIN jobs : jobs[i].path = p].content

WriteFailed(q) ==
    /\ q.pc = "failed"
    /\ \/ q.error.type = "OSError"
       \/ q.error.text = "Automation Helper refused to overwrite "

\* C7: the files a generate_package call has written are at every moment the
\* first ones of: the blueprint if asked for, automations.yaml, scripts.yaml,
\* scenes.yaml, README.md; and when a write has failed the call has ended,
\* the files before the failing one are on disk with the content the call
\* built, and the files after it were not written by the call.
C7_WritesInOrderNoRollback ==
    (Call.pc \in {"check", "write", "done"} \/ WriteFailed(Call)) =>
        LET order == ExpectedOrder(Call.data)
            n == Len(Call.wrote)
        IN  /\ n <= Len(order)
            /\ Call.wrote = SubSeq(order, 1, n)
            /\ \A i \in 1..n :
                  /\ order[i] \in DOMAIN files
                  /\ files[order[i]] = BuiltFor(Call, order[i])
            /\ Call.pc = "done" <=> n = Len(order)
            /\ WriteFailed(Call) =>
                  /\ n < Len(order)
                  /\ Call.error.path = order[n + 1]
                  /\ \A i \in (n + 2)..Len(order) :
                        order[i] \in DOMAIN files => files[order[i]] = Earlier

\* C7 witness: the write of scenes.yaml failed after the blueprint,
\* automations.yaml and scripts.yaml were written, with README.md still to
\* come
C7_Witness ==
    /\ WriteFailed(Call)
    /\ Call.error.path = PackageDir \o <<"scenes.yaml">>
    /\ Len(Call.wrote) = 3
    /\ Call.data.include_readme.val
    /\ PackageDir \o <<"README.md">> \notin DOMAIN files
    /\ files[PackageDir \o <<"scripts.yaml">>].builder = "build_scripts_package_yaml"

=============================================================================
